---- MODULE Spec2Model ----
(***************************************************************************)
(* Model of src/main.py (Behavioral Annotation Data Conversion Tool):      *)
(* process_csv, generate_timeline, generate_event_list,                    *)
(* calculate_file_summary, generate_box_plot and the loop of process_input.*)
(*                                                                         *)
(* Two specifications share the variables:                                 *)
(*   Spec       one direct call of process_csv, generate_event_list or    *)
(*              generate_timeline (the latter one loop iteration per step, *)
(*              and followed or not by calculate_file_summary or by        *)
(*              generate_event_list on the same sequence) on an input      *)
(*              drawn by Init;                                             *)
(*   BatchSpec  process_input over the files DetermineFiles finds, one     *)
(*              loop iteration per step (FairBatchSpec: with fairness).    *)
(* Python indices are 0-based, sequences here are 1-based: a position p of *)
(* the source is the index p+1 of the model.                               *)
(***************************************************************************)
EXTENDS Integers, Sequences, FiniteSets, TLC

\* ---------------------------------------------------------------- bounds
\* longest Frame column of a direct call
MaxLen == 4
\* frame values of a direct call range over -FrameBelow .. MaxFrame
FrameBelow == 1
MaxFrame == 4
\* total_frames of a direct call ranges over 1 .. MaxTotalFrames
MaxTotalFrames == 3
\* process_input: number of files; frame values range over 0 .. BatchMaxFrame
\* and total_frames over 1 .. BatchMaxTotalFrames
MaxFiles == 2
BatchMaxFrame == 1
BatchMaxTotalFrames == 1

\* ------------------------------------------------------------ input tables
\* A cell of the Frame column as pandas holds it before astype(int):
\* an integer, a float with fractional part one half (v is twice the value),
\* a non-numeric string, or a missing value (NaN).
IntCell(n) == [kind |-> "int", v |-> n]
FloatCell(twice) == [kind |-> "float", v |-> twice]
StrCell == [kind |-> "str", v |-> 0]
NaNCell == [kind |-> "nan", v |-> 0]

\* A csv file: unreadable (pd.read_csv raises), or a table with or without
\* a column named Frame.
Table(cells) == [readable |-> TRUE, hasFrame |-> TRUE, Frame |-> cells]
NoFrameTable == [readable |-> TRUE, hasFrame |-> FALSE, Frame |-> << >>]
Unreadable == [readable |-> FALSE, hasFrame |-> FALSE, Frame |-> << >>]

IntSeries(s) == [i \in 1..Len(s) |-> IntCell(s[i])]

\* None / a value
None == << >>
Some(x) == <<x>>

\* Sequences over S of length at most n
SeqsUpTo(S, n) == UNION {[1..k -> S] : k \in 0..n}

\* ------------------------------------------------------------- process_csv
\* frames.astype(int) on one cell: numpy truncates a float toward zero
astype_int(c) ==
  IF c.kind = "int" THEN c.v
  ELSE IF c.v >= 0 THEN c.v \div 2 ELSE -((-c.v) \div 2)

\* astype(int) raises ValueError on a non-numeric string or a missing value
RaisesValueErrorStrOnly(c) == c.kind = "str"

RaisesValueError(c) == c.kind \in {"str", "nan"}

\* the loop of lines 109-110: the first Python position i >= 1 with
\* frames[i] <= frames[i-1], or -1 when the loop runs to its end
FirstNonIncreasingAsLess(frames) ==
  LET bad == {i \in 1..(Len(frames) - 1) : frames[i + 1] < frames[i]}
  IN IF bad = {} THEN -1 ELSE CHOOSE i \in bad : \A j \in bad : i <= j

FirstNonIncreasing(frames) ==
  LET bad == {i \in 1..(Len(frames) - 1) : frames[i + 1] <= frames[i]}
  IN IF bad = {} THEN -1 ELSE CHOOSE i \in bad : \A j \in bad : i <= j

\* the dictionary error_log.update(...) fills; details is the kind of the
\* message and position the number the message carries
ErrorLog(filename, error_type, details, frame, position) ==
  [filename |-> filename, error_type |-> error_type, details |-> details,
   frame |-> frame, position |-> position]

EmptyLog == ErrorLog(None, "", "", None, None)

\* a validation failure that returns None also when no error_log was given
CsvFailureNeverRaises(filename, collect, error_type, details, frame, position) ==
  [ret |-> None,
   raised |-> FALSE,
   error_log |-> IF collect
                 THEN ErrorLog(Some(filename), error_type, details, frame, position)
                 ELSE EmptyLog]

\* a validation failure: with an error_log the dictionary is filled and None
\* is returned, without one DataValidationError is raised (the except branch
\* of lines 128-142 catches it and raises DataValidationError again, the
\* message prefixed: raised stands for "DataValidationError was raised")
CsvFailure(filename, collect, error_type, details, frame, position) ==
  [ret |-> None,
   raised |-> ~collect,
   error_log |-> IF collect
                 THEN ErrorLog(Some(filename), error_type, details, frame, position)
                 ELSE EmptyLog]

\* process_csv(file_path, error_log); collect is "error_log is not None".
\* ret is None or the returned Frame column.
process_csv(file, filename, collect) ==
  IF ~file.readable
  THEN CsvFailure(filename, collect, "Processing Error",
                  "Error processing file", None, None)
  ELSE IF ~file.hasFrame
  THEN CsvFailure(filename, collect, "Missing Column",
                  "is missing the 'Frame' column", None, None)
  ELSE IF \E i \in 1..Len(file.Frame) : RaisesValueError(file.Frame[i])
  THEN CsvFailure(filename, collect, "Non-numeric Values",
                  "contains non-numeric values in the 'Frame' column", None, None)
  ELSE LET frames == [i \in 1..Len(file.Frame) |-> astype_int(file.Frame[i])]
           pos == FirstNonIncreasing(frames)
       IN IF Len(frames) % 2 # 0
          THEN CsvFailure(filename, collect, "Odd Entry Count",
                          "contains an odd number of frame entries", None, None)
          ELSE IF pos # -1
          THEN CsvFailure(filename, collect, "Non-increasing Frames",
                          "contains non-increasing frame numbers at position",
                          Some(frames[pos + 1]), Some(pos))
          ELSE [ret |-> Some(frames), raised |-> FALSE, error_log |-> EmptyLog]

\* ------------------------------------------------------ generate_event_list
\* an exception raised by a generator; index is the 0-based pair index of
\* the message "Invalid frame pair at index ..."
NoError == [kind |-> "none", index |-> 0, start |-> 0, stop |-> 0]
OddEntriesError == [kind |-> "even_number_expected", index |-> 0, start |-> 0, stop |-> 0]
InvalidPairErrorOneBased(index, start, stop) ==
  [kind |-> "invalid_pair", index |-> index + 1, start |-> start, stop |-> stop]

InvalidPairError(index, start, stop) ==
  [kind |-> "invalid_pair", index |-> index, start |-> start, stop |-> stop]

Raise(error) == [ret |-> None, raised |-> TRUE, error |-> error]
Return(value) == [ret |-> Some(value), raised |-> FALSE, error |-> NoError]

\* pairs = [(frame_values[i], frame_values[i+1]) for i in range(0, len, 2)]
Pairs(frame_values) ==
  [k \in 1..(Len(frame_values) \div 2) |->
     <<frame_values[2 * k - 1], frame_values[2 * k]>>]

EventZeroBased(EventID, StartFrame, StopFrame) ==
  [EventID |-> EventID - 1, StartFrame |-> StartFrame, StopFrame |-> StopFrame]

EventSwapped(EventID, StartFrame, StopFrame) ==
  [EventID |-> EventID, StartFrame |-> StopFrame, StopFrame |-> StartFrame]

Event(EventID, StartFrame, StopFrame) ==
  [EventID |-> EventID, StartFrame |-> StartFrame, StopFrame |-> StopFrame]

\* the loop of lines 290-303: events appended until the first pair with
\* start > stop raises; k is the 1-based pair number, i // 2 + 1
RECURSIVE EventLoopFlooringStart(_, _, _)
EventLoopFlooringStart(events, pairs, k) ==
  IF k > Len(pairs) THEN Return(events)
  ELSE LET start == pairs[k][1]
           stop == pairs[k][2]
       IN IF start > stop
          THEN Raise(InvalidPairError(k - 1, start, stop))
          ELSE EventLoopFlooringStart(
                 Append(events, Event(k, IF start < 1 THEN 1 ELSE start, stop)),
                 pairs, k + 1)

\* the comparison of line 294 inverted
RECURSIVE EventLoopInvertedCheck(_, _, _)
EventLoopInvertedCheck(events, pairs, k) ==
  IF k > Len(pairs) THEN Return(events)
  ELSE LET start == pairs[k][1]
           stop == pairs[k][2]
       IN IF start < stop
          THEN Raise(InvalidPairError(k - 1, start, stop))
          ELSE EventLoopInvertedCheck(Append(events, Event(k, start, stop)), pairs, k + 1)

RECURSIVE EventLoop(_, _, _)
EventLoop(events, pairs, k) ==
  IF k > Len(pairs) THEN Return(events)
  ELSE LET start == pairs[k][1]
           stop == pairs[k][2]
       IN IF start > stop
          THEN Raise(InvalidPairError(k - 1, start, stop))
          ELSE EventLoop(Append(events, Event(k, start, stop)), pairs, k + 1)

\* the pairs are taken without the check of lines 284-286
generate_event_list_unchecked(frames) == EventLoop(<< >>, Pairs(frames), 1)

generate_event_list(frames) ==
  IF Len(frames) % 2 # 0 THEN Raise(OddEntriesError)
  ELSE EventLoop(<< >>, Pairs(frames), 1)

\* -------------------------------------------------------- generate_timeline
Row(Frame, GroomingFlag, EventID) ==
  [Frame |-> Frame, GroomingFlag |-> GroomingFlag, EventID |-> EventID]

NewTimelineZeroBased(total_frames) == [f \in 1..total_frames |-> Row(f - 1, 0, 0)]

\* pd.DataFrame({'Frame': range(1, total_frames + 1), 'GroomingFlag': 0, 'EventID': 0})
NewTimeline(total_frames) == [f \in 1..total_frames |-> Row(f, 0, 0)]

\* lines 249-251 and 253-255
ClampStartNoFloor(start) == start

ClampStart(start) == IF start < 1 THEN 1 ELSE start
ClampStop(stop, total_frames) == IF stop > total_frames THEN total_frames ELSE stop

\* lines 258-260: the rows selected by the mask get flag 1 and the event id
MarkEventExclusiveStart(timeline, event_id, start, stop) ==
  [r \in DOMAIN timeline |->
     IF timeline[r].Frame > start /\ timeline[r].Frame <= stop
     THEN Row(timeline[r].Frame, 1, event_id)
     ELSE timeline[r]]

MarkEventKeepFirst(timeline, event_id, start, stop) ==
  [r \in DOMAIN timeline |->
     IF /\ timeline[r].Frame >= start /\ timeline[r].Frame <= stop
        /\ timeline[r].EventID = 0
     THEN Row(timeline[r].Frame, 1, event_id)
     ELSE timeline[r]]

MarkEventPastStop(timeline, event_id, start, stop) ==
  [r \in DOMAIN timeline |->
     IF timeline[r].Frame >= start /\ timeline[r].Frame <= stop + 1
     THEN Row(timeline[r].Frame, 1, event_id)
     ELSE timeline[r]]

MarkEventNoFlag(timeline, event_id, start, stop) ==
  [r \in DOMAIN timeline |->
     IF timeline[r].Frame >= start /\ timeline[r].Frame <= stop
     THEN Row(timeline[r].Frame, timeline[r].GroomingFlag, event_id)
     ELSE timeline[r]]

MarkEvent(timeline, event_id, start, stop) ==
  [r \in DOMAIN timeline |->
     IF timeline[r].Frame >= start /\ timeline[r].Frame <= stop
     THEN Row(timeline[r].Frame, 1, event_id)
     ELSE timeline[r]]

\* the locals start and stop after lines 249-255
ClampedPair(pair, total_frames) ==
  <<ClampStart(pair[1]), ClampStop(pair[2], total_frames)>>

\* an iteration that reports the 1-based number of the pair
TimelineIterationOneBased(timeline, event_id, pair, total_frames) ==
  IF pair[1] > pair[2]
  THEN Raise(InvalidPairError(event_id, pair[1], pair[2]))
  ELSE LET clamped == ClampedPair(pair, total_frames)
       IN Return(MarkEvent(timeline, event_id, clamped[1], clamped[2]))

\* one iteration of the loop of lines 243-260 for the pair numbered event_id
TimelineIteration(timeline, event_id, pair, total_frames) ==
  IF pair[1] > pair[2]
  THEN Raise(InvalidPairError(event_id - 1, pair[1], pair[2]))
  ELSE LET clamped == ClampedPair(pair, total_frames)
       IN Return(MarkEvent(timeline, event_id, clamped[1], clamped[2]))

RECURSIVE TimelineLoop(_, _, _, _)
TimelineLoop(timeline, pairs, event_id, total_frames) ==
  IF event_id > Len(pairs) THEN Return(timeline)
  ELSE LET it == TimelineIteration(timeline, event_id, pairs[event_id], total_frames)
       IN IF it.raised THEN it
          ELSE TimelineLoop(it.ret[1], pairs, event_id + 1, total_frames)

generate_timeline(frames, total_frames) ==
  IF Len(frames) % 2 # 0 THEN Raise(OddEntriesError)
  ELSE TimelineLoop(NewTimeline(total_frames), Pairs(frames), 1, total_frames)

\* --------------------------------------------------- calculate_file_summary
\* a float result as a fraction in lowest terms, 0 as 0/1
RECURSIVE GCD(_, _)
GCD(a, b) == IF b = 0 THEN a ELSE GCD(b, a % b)

Fraction(num, den) ==
  IF num = 0 THEN [num |-> 0, den |-> 1]
  ELSE LET g == GCD(IF num < 0 THEN -num ELSE num, den)
       IN [num |-> num \div g, den |-> den \div g]

Zero == Fraction(0, 1)

RECURSIVE SumSeq(_)
SumSeq(d) == IF d = << >> THEN 0 ELSE d[1] + SumSeq(Tail(d))

RECURSIVE SumSquares(_)
SumSquares(d) == IF d = << >> THEN 0 ELSE d[1] * d[1] + SumSquares(Tail(d))

RECURSIVE Insert(_, _)
Insert(x, sorted) ==
  IF sorted = << >> THEN <<x>>
  ELSE IF x <= sorted[1] THEN <<x>> \o sorted
  ELSE <<sorted[1]>> \o Insert(x, Tail(sorted))

RECURSIVE Sorted(_)
Sorted(d) == IF d = << >> THEN << >> ELSE Insert(d[1], Sorted(Tail(d)))

\* np.mean, np.median and the square of np.std (population) of a non-empty list
Mean(d) == Fraction(SumSeq(d), Len(d))
Median(d) ==
  LET srt == Sorted(d)
      n == Len(d)
  IN IF n % 2 = 1 THEN Fraction(srt[(n + 1) \div 2], 1)
     ELSE Fraction(srt[n \div 2] + srt[n \div 2 + 1], 2)
StdSquared(d) ==
  Fraction(Len(d) * SumSquares(d) - SumSeq(d) * SumSeq(d), Len(d) * Len(d))

EventDurationsExclusive(event_list) ==
  [k \in 1..Len(event_list) |->
     event_list[k].StopFrame - event_list[k].StartFrame]

\* line 324: StopFrame - StartFrame + 1 for each row of the event list
EventDurations(event_list) ==
  [k \in 1..Len(event_list) |->
     event_list[k].StopFrame - event_list[k].StartFrame + 1]

\* line 330: timeline_df['GroomingFlag'].sum(), the sum of the column
\* (the rows lo..hi, summed by halves)
RECURSIVE FlagSum(_, _, _)
FlagSum(timeline_df, lo, hi) ==
  IF lo > hi THEN 0
  ELSE IF lo = hi THEN timeline_df[lo].GroomingFlag
  ELSE LET mid == (lo + hi) \div 2
       IN FlagSum(timeline_df, lo, mid) + FlagSum(timeline_df, mid + 1, hi)

GroomingFlagSum(timeline_df) == FlagSum(timeline_df, 1, Len(timeline_df))

\* calculate_file_summary: the summary dictionary and the duration list;
\* std_event_duration is held as its square
calculate_file_summary(filename, timeline_df, event_list_df, n_frames) ==
  LET event_durations == EventDurations(event_list_df)
      total_grooming_frames == GroomingFlagSum(timeline_df)
      empty == event_durations = << >>
  IN [summary |->
        [filename |-> filename,
         num_events |-> Len(event_list_df),
         total_grooming_frames |-> total_grooming_frames,
         avg_event_duration |-> IF empty THEN Zero ELSE Mean(event_durations),
         median_event_duration |-> IF empty THEN Zero ELSE Median(event_durations),
         std_event_duration |-> IF empty THEN Zero ELSE StdSquared(event_durations),
         grooming_percentage |-> Fraction(total_grooming_frames * 100, n_frames)],
      event_durations |-> event_durations]

\* ------------------------------------------------------------------- state
VARIABLES
  pc,                  \* position of the running call
  file,                \* direct call: the csv file given to process_csv
  total_frames,        \* the --total_frames argument
  csv_out,             \* direct call: outcome of process_csv
  evl_out,             \* direct call: outcome of generate_event_list
  gt_out,              \* direct call: outcome of generate_timeline
  fs_out,              \* direct call: what calculate_file_summary returned
  timeline,            \* generate_timeline: the local timeline
  event_id,            \* generate_timeline: the loop counter of enumerate(pairs, 1)
  start,               \* generate_timeline: start after the last iteration
  stop,                \* generate_timeline: stop after the last iteration
  files,               \* process_input: files_to_process
  idx,                 \* process_input: number of files the loop has taken
  error_logs,          \* process_input: error_logs
  file_summaries,      \* process_input: file_summaries
  total_files,         \* process_input: total_files
  successful_files,    \* process_input: successful_files
  all_event_durations, \* process_input: all_event_durations
  outputs,             \* process_input: files written to the output directory
  summary,             \* process_input: the value returned to the caller
  errorLog_csv,        \* the output directory's errorLog.csv, None while absent
  summary_report_csv   \* the output directory's summary_report.csv, None while absent

callVars == <<file, csv_out, evl_out, gt_out, fs_out, timeline, event_id, start, stop>>
batchVars == <<files, idx, error_logs, file_summaries, total_files,
               successful_files, all_event_durations, outputs, summary,
               errorLog_csv, summary_report_csv>>
vars == <<pc, total_frames, callVars, batchVars>>

NotCalled == [ret |-> None, raised |-> FALSE, error |-> NoError]
CsvNotCalled == [ret |-> None, raised |-> FALSE, error_log |-> EmptyLog]

\* ------------------------------------------------- direct calls (Spec)
Cells ==
  {IntCell(n) : n \in (-FrameBelow)..MaxFrame}
    \cup {FloatCell(3), FloatCell(-1), StrCell, NaNCell}

InputTables ==
  {Unreadable, NoFrameTable} \cup {Table(c) : c \in SeqsUpTo(Cells, MaxLen)}

\* the inputs of src/tests/test_main.py and of the scenarios of the spec
ScenarioInputs ==
  {<<Table(IntSeries(s)), 500>> :
     s \in {<<100, 150, 200, 250>>, <<100, 200, 300, 400>>,
            <<200, 100, 300, 400>>, <<0, 50, 480, 600>>,
            <<100, 150, 140, 250>>, <<100, 200, 300>>}}
    \cup {<<Table(IntSeries(<<1, 30, 71, 90>>)), 100>>}

\* the file name of a direct call
DirectName == 0

\* a pd.Series of integers handed directly to a generator
IsIntSeries(f) ==
  f.readable /\ f.hasFrame /\ \A i \in 1..Len(f.Frame) : f.Frame[i].kind = "int"
SeriesValues(f) == [i \in 1..Len(f.Frame) |-> f.Frame[i].v]

BatchIdle ==
  /\ files = << >> /\ idx = 0 /\ error_logs = << >> /\ file_summaries = << >>
  /\ total_files = 0 /\ successful_files = 0 /\ all_event_durations = << >>
  /\ outputs = << >> /\ summary = None
  /\ errorLog_csv = None /\ summary_report_csv = None

CallIdle ==
  /\ file = Unreadable /\ csv_out = CsvNotCalled /\ evl_out = NotCalled
  /\ gt_out = NotCalled /\ fs_out = None /\ timeline = << >> /\ event_id = 0
  /\ start = 0 /\ stop = 0

Init ==
  /\ pc = "idle"
  /\ \E in \in (InputTables \X (1..MaxTotalFrames)) \cup ScenarioInputs :
       file = in[1] /\ total_frames = in[2]
  /\ csv_out = CsvNotCalled /\ evl_out = NotCalled /\ gt_out = NotCalled
  /\ fs_out = None
  /\ timeline = << >> /\ event_id = 0 /\ start = 0 /\ stop = 0
  /\ BatchIdle

\* process_csv(file, error_log) with error_log = {}
CallProcessCsv ==
  /\ pc = "idle"
  /\ csv_out' = process_csv(file, DirectName, TRUE)
  /\ pc' = "csv_done"
  /\ UNCHANGED <<file, total_frames, evl_out, gt_out, fs_out, timeline, event_id, start, stop,
                 batchVars>>

\* process_csv(file) without an error_log
CallProcessCsvNoLog ==
  /\ pc = "idle"
  /\ csv_out' = process_csv(file, DirectName, FALSE)
  /\ pc' = "csv_nolog_done"
  /\ UNCHANGED <<file, total_frames, evl_out, gt_out, fs_out, timeline, event_id, start, stop,
                 batchVars>>

\* generate_event_list(frames)
CallGenerateEventList ==
  /\ pc = "idle" /\ IsIntSeries(file)
  /\ evl_out' = generate_event_list(SeriesValues(file))
  /\ pc' = "evl_done"
  /\ UNCHANGED <<file, total_frames, csv_out, gt_out, fs_out, timeline, event_id, start, stop,
                 batchVars>>

\* generate_timeline(frames, total_frames), lines 225-240
TimelineBegin ==
  /\ pc = "idle" /\ IsIntSeries(file)
  /\ IF Len(SeriesValues(file)) % 2 # 0
     THEN /\ gt_out' = Raise(OddEntriesError)
          /\ pc' = "gt_done"
          /\ UNCHANGED <<timeline, event_id>>
     ELSE /\ timeline' = NewTimeline(total_frames)
          /\ event_id' = 1
          /\ pc' = "gt_loop"
          /\ UNCHANGED gt_out
  /\ UNCHANGED <<file, total_frames, csv_out, evl_out, fs_out, start, stop, batchVars>>

\* one iteration of the loop of lines 243-260
TimelineStep ==
  /\ pc = "gt_loop" /\ event_id <= Len(Pairs(SeriesValues(file)))
  /\ LET pair == Pairs(SeriesValues(file))[event_id]
         it == TimelineIteration(timeline, event_id, pair, total_frames)
     IN IF it.raised
        THEN /\ gt_out' = it
             /\ pc' = "gt_done"
             /\ timeline' = << >>
             /\ event_id' = 0
             /\ start' = 0
             /\ stop' = 0
        ELSE /\ timeline' = it.ret[1]
             /\ event_id' = event_id + 1
             /\ start' = ClampedPair(pair, total_frames)[1]
             /\ stop' = ClampedPair(pair, total_frames)[2]
             /\ UNCHANGED <<gt_out, pc>>
  /\ UNCHANGED <<file, total_frames, csv_out, evl_out, fs_out, batchVars>>

\* return timeline, line 262
TimelineReturn ==
  /\ pc = "gt_loop" /\ event_id > Len(Pairs(SeriesValues(file)))
  /\ gt_out' = Return(timeline)
  /\ pc' = "gt_done"
  /\ timeline' = << >>
  /\ event_id' = 0
  /\ start' = 0
  /\ stop' = 0
  /\ UNCHANGED <<file, total_frames, csv_out, evl_out, fs_out, batchVars>>

\* calculate_file_summary(filename, timeline_df, event_list_df, total_frames)
\* on the timeline generate_timeline returned and the event list
\* generate_event_list returns for the same Frame column, lines 646-672
CallCalculateFileSummary ==
  /\ pc = "gt_done" /\ gt_out.ret # None
  /\ \E ev \in {generate_event_list(SeriesValues(file))} :
       /\ ~ev.raised
       /\ evl_out' = ev
       /\ fs_out' = Some(calculate_file_summary(DirectName, gt_out.ret[1],
                                                ev.ret[1], total_frames))
  /\ pc' = "fs_done"
  /\ UNCHANGED <<file, total_frames, csv_out, gt_out, timeline, event_id, start, stop,
                 batchVars>>

\* generate_event_list(frames) on the sequence generate_timeline was called
\* with, as in test_generate_timeline_invalid_pair and
\* test_generate_event_list_invalid_pair
CallGenerateEventListAfterTimeline ==
  /\ pc = "gt_done"
  /\ evl_out' = generate_event_list(SeriesValues(file))
  /\ pc' = "both_done"
  /\ UNCHANGED <<file, total_frames, csv_out, gt_out, fs_out, timeline, event_id, start,
                 stop, batchVars>>

Next ==
  \/ CallProcessCsv
  \/ CallProcessCsvNoLog
  \/ CallGenerateEventList
  \/ TimelineBegin
  \/ TimelineStep
  \/ TimelineReturn
  \/ CallCalculateFileSummary
  \/ CallGenerateEventListAfterTimeline

Spec == Init /\ [][Next]_vars

\* ------------------------------------------------------------ process_input
\* what one file left in the output directory
WrittenWithoutBoxPlot(timeline_csv, events_csv, timeline_png, boxplot_png) ==
  [timeline_csv |-> timeline_csv, events_csv |-> events_csv,
   timeline_png |-> timeline_png, boxplot_png |-> FALSE]

Written(timeline_csv, events_csv, timeline_png, boxplot_png) ==
  [timeline_csv |-> timeline_csv, events_csv |-> events_csv,
   timeline_png |-> timeline_png, boxplot_png |-> boxplot_png]

NothingWritten == Written(None, None, FALSE, FALSE)

\* the step of lines 652-668 at which the operating system or matplotlib
\* raises (disk full, no permission, ...), or "none"
EnvOutcomes == {"none", "timeline_csv", "events_csv", "timeline_png", "boxplot_png"}

\* csv_file.name and csv_file.stem of the file numbered i: distinct files of
\* one directory have distinct names and stems
Name(i) == i
Stem(i) == i

\* lines 431-432 and 540-541: the plots refuse an empty table
TimelinePlotRaises(timeline_df) == Len(timeline_df) = 0
BoxPlotRaises(event_list_df) == Len(event_list_df) = 0

\* the except branch of lines 680-690
Caught(i, details, written) ==
  [failed |-> TRUE,
   error_log |-> ErrorLog(Some(Name(i)), "Processing Error", details, None, None),
   written |-> written,
   summary |-> calculate_file_summary(Stem(i), << >>, << >>, 1).summary,
   event_durations |-> << >>]

\* the body of the loop of lines 626-690 for the file numbered i: whether the
\* file failed, the error log appended if it did (details is str(e), the
\* message of the exception), the files written, and the summary and
\* durations appended if it did not
process_file(csv_file, i, n_frames, env) ==
  LET csv == process_csv(csv_file, Name(i), TRUE)
  IN IF csv.ret = None
     THEN [failed |-> TRUE, error_log |-> csv.error_log, written |-> NothingWritten,
           summary |-> calculate_file_summary(Stem(i), << >>, << >>, 1).summary,
           event_durations |-> << >>]
     ELSE
       LET tl == generate_timeline(csv.ret[1], n_frames)
           ev == generate_event_list(csv.ret[1])
       IN IF tl.raised THEN Caught(i, tl.error.kind, NothingWritten)
          ELSE IF ev.raised THEN Caught(i, ev.error.kind, NothingWritten)
          ELSE
            LET timeline_df == tl.ret[1]
                event_list_df == ev.ret[1]
                fs == calculate_file_summary(Stem(i), timeline_df, event_list_df, n_frames)
            IN IF env = "timeline_csv"
               THEN Caught(i, "OSError", NothingWritten)
               ELSE IF env = "events_csv"
               THEN Caught(i, "OSError", Written(Some(timeline_df), None, FALSE, FALSE))
               ELSE IF TimelinePlotRaises(timeline_df)
               THEN Caught(i, "Timeline DataFrame is empty or None",
                           Written(Some(timeline_df), Some(event_list_df), FALSE, FALSE))
               ELSE IF env = "timeline_png"
               THEN Caught(i, "OSError",
                           Written(Some(timeline_df), Some(event_list_df), FALSE, FALSE))
               ELSE IF BoxPlotRaises(event_list_df)
               THEN Caught(i, "Event list DataFrame is empty or None",
                           Written(Some(timeline_df), Some(event_list_df), TRUE, FALSE))
               ELSE IF env = "boxplot_png"
               THEN Caught(i, "OSError",
                           Written(Some(timeline_df), Some(event_list_df), TRUE, FALSE))
               ELSE [failed |-> FALSE, error_log |-> EmptyLog,
                     written |-> Written(Some(timeline_df), Some(event_list_df), TRUE, TRUE),
                     summary |-> fs.summary,
                     event_durations |-> fs.event_durations]

BatchCells == {IntCell(n) : n \in 0..BatchMaxFrame} \cup {StrCell}

\* the files of a batch: unreadable, without a Frame column, or with a Frame
\* column of no cell, one cell or one pair of cells
BatchFiles ==
  {Unreadable, NoFrameTable, Table(<< >>)}
    \cup {Table(<<a>>) : a \in BatchCells}
    \cup {Table(<<a, b>>) : a \in BatchCells, b \in BatchCells}

\* process_input is entered with a total_frames; nothing is read yet
BatchInit ==
  /\ pc = "batch_start"
  /\ total_frames \in 1..BatchMaxTotalFrames
  /\ BatchIdle
  /\ CallIdle

\* lines 609-623: the output directory is created (new, hence empty), the
\* tracking variables are initialised and the files to process are
\* determined, the single file or what the directory holds
DetermineFiles ==
  /\ pc = "batch_start"
  /\ \E n \in 0..MaxFiles : files' \in [1..n -> BatchFiles]
  /\ pc' = "batch_loop"
  /\ idx' = 0 /\ error_logs' = << >> /\ file_summaries' = << >>
  /\ total_files' = 0 /\ successful_files' = 0 /\ all_event_durations' = << >>
  /\ outputs' = << >>
  /\ errorLog_csv' = None /\ summary_report_csv' = None
  /\ UNCHANGED <<total_frames, summary, callVars>>

\* an iteration in which an exception escapes the loop: the run ends at once
ProcessFileAborting ==
  /\ pc = "batch_loop" /\ idx < Len(files)
  /\ \E env \in EnvOutcomes :
       \E it \in {process_file(files[idx + 1], idx + 1, total_frames, env)} :
          /\ idx' = idx + 1
          /\ total_files' = total_files + 1
          /\ pc' = IF it.failed THEN "batch_done" ELSE pc
          /\ error_logs' = error_logs
          /\ file_summaries' =
               IF it.failed THEN file_summaries ELSE Append(file_summaries, it.summary)
          /\ all_event_durations' =
               IF it.failed THEN all_event_durations
               ELSE all_event_durations \o it.event_durations
          /\ successful_files' =
               IF it.failed THEN successful_files ELSE successful_files + 1
          /\ outputs' = Append(outputs, it.written)
  /\ UNCHANGED <<total_frames, summary, callVars, files, errorLog_csv, summary_report_csv>>

\* an iteration that counts the file as successful before its outputs are
\* written
ProcessFileCountingEarly ==
  /\ pc = "batch_loop" /\ idx < Len(files)
  /\ \E env \in EnvOutcomes :
       \E it \in {process_file(files[idx + 1], idx + 1, total_frames, env)} :
          /\ idx' = idx + 1
          /\ total_files' = total_files + 1
          /\ error_logs' =
               IF it.failed THEN Append(error_logs, it.error_log) ELSE error_logs
          /\ file_summaries' =
               IF it.failed THEN file_summaries ELSE Append(file_summaries, it.summary)
          /\ all_event_durations' =
               IF it.failed THEN all_event_durations
               ELSE all_event_durations \o it.event_durations
          /\ successful_files' =
               IF it.failed /\ it.written = NothingWritten
               THEN successful_files ELSE successful_files + 1
          /\ outputs' = Append(outputs, it.written)
  /\ UNCHANGED <<pc, total_frames, summary, callVars, files, errorLog_csv,
                 summary_report_csv>>

\* one iteration of the loop of lines 626-690
ProcessFile ==
  /\ pc = "batch_loop" /\ idx < Len(files)
  /\ \E env \in EnvOutcomes :
       \E it \in {process_file(files[idx + 1], idx + 1, total_frames, env)} :
          /\ idx' = idx + 1
          /\ total_files' = total_files + 1
          /\ error_logs' =
               IF it.failed THEN Append(error_logs, it.error_log) ELSE error_logs
          /\ file_summaries' =
               IF it.failed THEN file_summaries ELSE Append(file_summaries, it.summary)
          /\ all_event_durations' =
               IF it.failed THEN all_event_durations
               ELSE all_event_durations \o it.event_durations
          /\ successful_files' =
               IF it.failed THEN successful_files ELSE successful_files + 1
          /\ outputs' = Append(outputs, it.written)
  /\ UNCHANGED <<pc, total_frames, summary, callVars, files, errorLog_csv,
                 summary_report_csv>>

\* the loop is exhausted and the function body ends at line 690 without a
\* return statement: the caller receives None, and neither errorLog.csv nor
\* summary_report.csv is written (save_summary_report is never called)
ProcessInputEnd ==
  /\ pc = "batch_loop" /\ idx = Len(files)
  /\ pc' = "batch_done"
  /\ summary' = None
  /\ UNCHANGED <<total_frames, callVars, files, idx, error_logs, file_summaries,
                 total_files, successful_files, all_event_durations, outputs,
                 errorLog_csv, summary_report_csv>>

BatchNext == DetermineFiles \/ ProcessFile \/ ProcessInputEnd

BatchSpec == BatchInit /\ [][BatchNext]_vars

\* the loop is sequential and synchronous: an iteration that can run does run
FairBatchSpec == BatchSpec /\ WF_vars(BatchNext)

\* ================================================================ claims
\* the frame sequence and the pairs of the direct call
InputFrames == SeriesValues(file)
InputPairs == Pairs(InputFrames)
EvenInput == IsIntSeries(file) /\ Len(file.Frame) % 2 = 0
AllPairsOrdered == \A k \in 1..Len(InputPairs) : InputPairs[k][1] <= InputPairs[k][2]
Max(a, b) == IF a >= b THEN a ELSE b
Min(a, b) == IF a <= b THEN a ELSE b
FrameWindow == 1..total_frames

\* the integer a numeric cell stands for: the cell itself, or for a float
\* the nearest integer in the direction of zero
IntegerOf(c) ==
  IF c.kind = "int" THEN c.v
  ELSE CHOOSE n \in -(MaxFrame + 2)..(MaxFrame + 2) :
         \/ c.v > 0 /\ 2 * n = c.v - 1
         \/ c.v < 0 /\ 2 * n = c.v + 1

Numeric(f) == \A i \in 1..Len(f.Frame) : f.Frame[i].kind \in {"int", "float"}

StrictlyIncreasingColumn(f) ==
  \A i \in 1..Len(f.Frame) : \A j \in 1..Len(f.Frame) :
    i < j => IntegerOf(f.Frame[i]) < IntegerOf(f.Frame[j])

Accepted(f) ==
  /\ f.readable /\ f.hasFrame /\ Numeric(f)
  /\ Len(f.Frame) % 2 = 0
  /\ StrictlyIncreasingColumn(f)

\* C1: process_csv succeeds exactly when the table has a Frame column, every
\* cell converts to an integer, the count is even and the integers are
\* strictly increasing; on success the returned column has the length of the
\* input and holds, row by row, the integer of each cell.
C1_ProcessCsvContract ==
  pc = "csv_done" =>
    /\ (csv_out.ret # None) <=> Accepted(file)
    /\ ~csv_out.raised
    /\ Accepted(file) =>
         /\ Len(csv_out.ret[1]) = Len(file.Frame)
         /\ \A i \in 1..Len(file.Frame) :
              csv_out.ret[1][i] = IntegerOf(file.Frame[i])

C1_Witness ==
  /\ pc = "csv_done" /\ csv_out.ret # None
  /\ Len(csv_out.ret[1]) = 4
  /\ csv_out.ret[1] = SeriesValues(file)

\* C2: for an even-length integer sequence whose pairs all have
\* start <= stop, generate_event_list returns len/2 events, the i-th pair
\* (0-based) as EventID i+1 with StartFrame seq[2i] and StopFrame seq[2i+1].
C2_EventListContract ==
  (pc = "evl_done" /\ EvenInput /\ AllPairsOrdered) =>
    /\ ~evl_out.raised /\ evl_out.ret # None
    /\ Len(evl_out.ret[1]) * 2 = Len(InputFrames)
    /\ \A k \in 1..Len(evl_out.ret[1]) :
         /\ evl_out.ret[1][k].EventID = k
         /\ evl_out.ret[1][k].StartFrame = InputFrames[2 * k - 1]
         /\ evl_out.ret[1][k].StopFrame = InputFrames[2 * k]

\* two events, the second starting before the first: no resorting
C2_Witness ==
  /\ pc = "evl_done" /\ EvenInput /\ AllPairsOrdered
  /\ evl_out.ret # None /\ Len(evl_out.ret[1]) = 2
  /\ evl_out.ret[1][2].StartFrame < evl_out.ret[1][1].StartFrame

\* the rows of the local timeline that carry event id k and flag 1
MarkedWith(k) ==
  {timeline[r].Frame : r \in {q \in DOMAIN timeline :
      timeline[q].EventID = k /\ timeline[q].GroomingFlag = 1}}

IterationDone(k) == pc = "gt_loop" /\ event_id = k + 1

\* C3: right after the iteration of pair k, the frames marked active with id
\* k are exactly those f with max(start,1) <= f <= min(stop,total_frames);
\* a sequence of ordered pairs never makes generate_timeline fail; with
\* total_frames = 500, (0,50) marks 1..50 and (480,600) marks 480..500.
C3_ClampedMarking ==
  /\ \A k \in 1..Len(file.Frame) :
       IterationDone(k) =>
         MarkedWith(k) =
           {f \in FrameWindow : /\ Max(InputPairs[k][1], 1) <= f
                                /\ f <= Min(InputPairs[k][2], total_frames)}
  /\ (pc = "gt_done" /\ EvenInput /\ AllPairsOrdered) => ~gt_out.raised
  /\ (file = Table(IntSeries(<<0, 50, 480, 600>>)) /\ total_frames = 500) =>
       /\ IterationDone(1) => MarkedWith(1) = 1..50
       /\ IterationDone(2) => MarkedWith(2) = 480..500 /\ MarkedWith(1) = 1..50

C3_Witness ==
  /\ IterationDone(2)
  /\ InputPairs[2][1] < 1 /\ InputPairs[2][2] > total_frames
  /\ MarkedWith(2) = FrameWindow

\* C4 as stated: after clamping a pair with start <= stop, start <= stop
\* still holds and both bounds lie in [1, total_frames].
C4_ClampNeverInverts ==
  \A k \in 1..Len(file.Frame) :
    IterationDone(k) =>
      start <= stop /\ start \in FrameWindow /\ stop \in FrameWindow

\* C4 amended: a pair with start <= stop that meets the window (stop >= 1 and
\* start <= total_frames) keeps start <= stop after clamping, both bounds in
\* [1, total_frames]; a pair wholly outside the window ends with start > stop
\* and marks no frame.
C4_ClampWithinWindow ==
  \A k \in 1..Len(file.Frame) :
    IterationDone(k) =>
      IF InputPairs[k][2] >= 1 /\ InputPairs[k][1] <= total_frames
      THEN start <= stop /\ start \in FrameWindow /\ stop \in FrameWindow
      ELSE start > stop /\ MarkedWith(k) = {}

C4_Witness ==
  /\ IterationDone(1)
  /\ InputPairs[1][1] < 1 /\ InputPairs[1][2] > total_frames
  /\ start = 1 /\ stop = total_frames

\* the returned timeline and the clamped range of pair k as a set of frames
Returned == pc = "gt_done" /\ gt_out.ret # None
ActiveRows ==
  Cardinality({r \in DOMAIN gt_out.ret[1] : gt_out.ret[1][r].GroomingFlag = 1})
ClampedLow(k) == Max(InputPairs[k][1], 1)
ClampedHigh(k) == Min(InputPairs[k][2], total_frames)
ClampedRange(k) == {f \in FrameWindow : ClampedLow(k) <= f /\ f <= ClampedHigh(k)}
NonOverlapping ==
  \A j \in 1..Len(InputPairs) : \A k \in 1..Len(InputPairs) :
    j # k => ClampedRange(j) \cap ClampedRange(k) = {}

ClampedSpan(k) == ClampedHigh(k) - ClampedLow(k) + 1
ClampedSize(k) == Max(0, ClampedSpan(k))

\* the sums of the spans and of the sizes of the first n clamped events
RECURSIVE SumOfSpans(_)
SumOfSpans(n) == IF n = 0 THEN 0 ELSE SumOfSpans(n - 1) + ClampedSpan(n)

RECURSIVE SumOfSizes(_)
SumOfSizes(n) == IF n = 0 THEN 0 ELSE SumOfSizes(n - 1) + ClampedSize(n)

\* C6 as stated: the number of active rows is the size of the union of the
\* clamped ranges, and for non-overlapping events the sum of
\* (clamped stop - clamped start + 1).
C6_ActiveCountIsSpanSum ==
  Returned =>
    /\ ActiveRows = Cardinality(UNION {ClampedRange(k) : k \in 1..Len(InputPairs)})
    /\ NonOverlapping => ActiveRows = SumOfSpans(Len(InputPairs))

\* C6 amended: the number of active rows is the size of the union of the
\* clamped ranges, and for non-overlapping events the sum over events of
\* max(0, clamped stop - clamped start + 1): an event wholly outside the
\* window counts 0.
C6_ActiveCountIsUnionSize ==
  Returned =>
    /\ ActiveRows = Cardinality(UNION {ClampedRange(k) : k \in 1..Len(InputPairs)})
    /\ NonOverlapping => ActiveRows = SumOfSizes(Len(InputPairs))

\* two events that do not overlap, one of them wholly outside the window by
\* more than one frame, the other marking rows
C6_Witness ==
  /\ Returned /\ Len(InputPairs) = 2 /\ NonOverlapping
  /\ \E k \in 1..2 : ClampedSpan(k) < 0
  /\ ActiveRows > 0

InvalidPairs == {k \in 1..Len(InputPairs) : InputPairs[k][1] > InputPairs[k][2]}
FirstInvalid == CHOOSE k \in InvalidPairs : \A j \in InvalidPairs : k <= j

InvalidPairReported(out) ==
  /\ out.raised /\ out.ret = None
  /\ out.error.kind = "invalid_pair"
  /\ out.error.index = FirstInvalid - 1
  /\ out.error.start = InputPairs[FirstInvalid][1]
  /\ out.error.stop = InputPairs[FirstInvalid][2]

\* C7: on an even-length sequence with a pair start > stop, both generators
\* raise an error naming the lowest 0-based index of such a pair with its
\* unclamped start and stop, and return nothing; [200,100,300,400] gives
\* index 0, start 200, stop 100.
C7_InvalidPairFails ==
  /\ (pc = "evl_done" /\ EvenInput /\ InvalidPairs # {}) => InvalidPairReported(evl_out)
  /\ (pc = "gt_done" /\ EvenInput /\ InvalidPairs # {}) => InvalidPairReported(gt_out)
  /\ (file = Table(IntSeries(<<200, 100, 300, 400>>)) /\ pc \in {"evl_done", "gt_done"}) =>
       LET out == IF pc = "evl_done" THEN evl_out ELSE gt_out
       IN out.raised /\ out.error = [kind |-> "invalid_pair", index |-> 0,
                                     start |-> 200, stop |-> 100]

\* generate_timeline fails at the second pair, after the first was marked
C7_Witness ==
  /\ pc = "gt_done" /\ EvenInput /\ InvalidPairs # {}
  /\ gt_out.raised /\ gt_out.error.index = 1
  /\ gt_out.error.start < 1

NonIncreasingAt ==
  {i \in 1..(Len(file.Frame) - 1) :
     IntegerOf(file.Frame[i + 1]) <= IntegerOf(file.Frame[i])}

\* C8: an integer-valued Frame column of even count that is not strictly
\* increasing fails as "Non-increasing Frames" at the smallest position i > 0
\* with value[i] <= value[i-1], carrying value[i] as frame and i as position;
\* [100,150,140,250] gives frame 140, position 2.
C8_NonIncreasingFailure ==
  /\ (/\ pc = "csv_done" /\ file.hasFrame /\ Numeric(file)
      /\ Len(file.Frame) % 2 = 0 /\ NonIncreasingAt # {}) =>
       LET i == CHOOSE p \in NonIncreasingAt : \A q \in NonIncreasingAt : p <= q
       IN /\ csv_out.ret = None
          /\ csv_out.error_log.error_type = "Non-increasing Frames"
          /\ csv_out.error_log.position = Some(i)
          /\ csv_out.error_log.frame = Some(IntegerOf(file.Frame[i + 1]))
  /\ (pc = "csv_done" /\ file = Table(IntSeries(<<100, 150, 140, 250>>))) =>
       /\ csv_out.error_log.frame = Some(140)
       /\ csv_out.error_log.position = Some(2)

\* equal neighbours, after an increasing start
C8_Witness ==
  /\ pc = "csv_done" /\ IsIntSeries(file) /\ Len(file.Frame) = 4
  /\ csv_out.error_log.error_type = "Non-increasing Frames"
  /\ csv_out.error_log.position = Some(2)
  /\ file.Frame[3] = file.Frame[2]

\* ------------------------------------------------ claims on process_input
\* the files the loop has taken, and those whose event table was written
Handled == 1..idx
WithEventTable == {i \in Handled : outputs[i].events_csv # None}
FramesOf(i) == SeriesValues(files[i])
EventTable(i) == outputs[i].events_csv[1]
TimelineTable(i) == outputs[i].timeline_csv[1]
FramesWithId(i, k) ==
  {TimelineTable(i)[r].Frame : r \in {q \in DOMAIN TimelineTable(i) :
      TimelineTable(i)[q].EventID = k}}

\* C5 as stated: the event table written for a file holds the clamped
\* values, StartFrame = max(start,1) and StopFrame = min(stop,total_frames).
C5_EventTablePostClamp ==
  \A i \in WithEventTable : \A k \in 1..Len(EventTable(i)) :
    /\ EventTable(i)[k].StartFrame = Max(FramesOf(i)[2 * k - 1], 1)
    /\ EventTable(i)[k].StopFrame = Min(FramesOf(i)[2 * k], total_frames)

\* C5 amended: the event table written for a file holds the values as read,
\* StartFrame = seq[2i] and StopFrame = seq[2i+1], unclamped; the frames that
\* carry the same EventID in the timeline of that file are the frames of
\* [StartFrame, StopFrame] that lie in [1, total_frames].
C5_EventTablePreClamp ==
  \A i \in WithEventTable : \A k \in 1..Len(EventTable(i)) :
    /\ EventTable(i)[k].EventID = k
    /\ EventTable(i)[k].StartFrame = FramesOf(i)[2 * k - 1]
    /\ EventTable(i)[k].StopFrame = FramesOf(i)[2 * k]
    /\ outputs[i].timeline_csv # None
    /\ FramesWithId(i, k) =
         {f \in FrameWindow : /\ EventTable(i)[k].StartFrame <= f
                              /\ f <= EventTable(i)[k].StopFrame}

\* a written event table whose event starts below frame 1
C5_Witness ==
  \E i \in WithEventTable :
    /\ Len(EventTable(i)) = 1
    /\ EventTable(i)[1].StartFrame < 1
    /\ FramesWithId(i, 1) = FrameWindow

\* the outcomes recorded for the file numbered i
SummariesOf(i) == {j \in 1..Len(file_summaries) : file_summaries[j].filename = Stem(i)}
ErrorsOf(i) == {j \in 1..Len(error_logs) : error_logs[j].filename = Some(Name(i))}
Outcomes(i) == Cardinality(SummariesOf(i)) + Cardinality(ErrorsOf(i))

OneOutcomePerHandledFile ==
  /\ idx <= Len(files)
  /\ \A i \in 1..Len(files) : Outcomes(i) = IF i <= idx THEN 1 ELSE 0
  /\ pc = "batch_done" => idx = Len(files)

\* C9: whatever fails for a file, the loop goes on: at every moment each
\* file already taken has exactly one outcome (one summary or one error
\* entry) and no other file has any, the run ends only after the last file,
\* and it does end.
C9_FailureIsolation ==
  /\ []OneOutcomePerHandledFile
  /\ <>(pc = "batch_done" /\ idx = Len(files))

\* a file that failed while plotting, followed by a file that succeeded
C9_Witness ==
  /\ pc = "batch_done" /\ Len(files) = 2
  /\ Len(error_logs) = 1 /\ error_logs[1].filename = Some(Name(1))
  /\ error_logs[1].details = "Event list DataFrame is empty or None"
  /\ Len(file_summaries) = 1 /\ file_summaries[1].filename = Stem(2)

\* C10: process_input returns a summary with total_files = number of input
\* files, successful_files = files without failure, faulty_files = files that
\* failed, and successful_files + faulty_files = total_files.
C10_ReturnsCounts ==
  pc = "batch_done" =>
    /\ summary # None
    /\ summary[1].total_files = Len(files)
    /\ summary[1].successful_files = Len(file_summaries)
    /\ summary[1].faulty_files = Len(error_logs)
    /\ summary[1].successful_files + summary[1].faulty_files = summary[1].total_files

\* the row of errorLog.csv for one entry of error_logs
ErrorLogRow(log) ==
  [filename |-> log.filename, error_type |-> log.error_type,
   details |-> log.details, frame |-> log.frame]

\* C11: when process_input has ended, errorLog.csv has been written with
\* exactly one row per failed file (its filename, error_type, details and
\* frame) if at least one file failed, and does not exist if none failed.
C11_ErrorLogWritten ==
  pc = "batch_done" =>
    IF error_logs = << >>
    THEN errorLog_csv = None
    ELSE /\ errorLog_csv # None
         /\ Len(errorLog_csv[1]) = Len(error_logs)
         /\ \A j \in 1..Len(error_logs) :
              errorLog_csv[1][j] = ErrorLogRow(error_logs[j])

\* the file numbered i failed because the environment did (an OSError while
\* a table or a plot was saved)
EnvironmentFailed(i) == \E j \in ErrorsOf(i) : error_logs[j].details = "OSError"

ZeroSummary(s) ==
  /\ s.num_events = 0
  /\ s.avg_event_duration = Zero
  /\ s.median_event_duration = Zero
  /\ s.std_event_duration = Zero
  /\ s.grooming_percentage = Zero

\* C12: a file whose Frame column is present and holds no entry is a success
\* of the batch run (the environment permitting): a summary with
\* num_events = 0, average, median and standard deviation 0 and active
\* percentage 0 is recorded for it and it is not among the failures.
C12_EmptyFileSucceeds ==
  \A i \in Handled :
    (files[i] = Table(<< >>) /\ ~EnvironmentFailed(i)) =>
      /\ ErrorsOf(i) = {}
      /\ \E j \in SummariesOf(i) : ZeroSummary(file_summaries[j])

Successful(i) == SummariesOf(i) # {}
Failed(i) == ErrorsOf(i) # {}
AllOutputs(i) ==
  /\ outputs[i].timeline_csv # None /\ outputs[i].events_csv # None
  /\ outputs[i].timeline_png /\ outputs[i].boxplot_png

\* C13 as stated: at the end of process_input every successful file has its
\* timeline table, event table and both plots, and no timeline table or event
\* table has been written for a file recorded as failed.
C13_OutputsOnlyOnSuccess ==
  pc = "batch_done" =>
    \A i \in Handled :
      /\ Successful(i) => AllOutputs(i)
      /\ Failed(i) => outputs[i].timeline_csv = None /\ outputs[i].events_csv = None

\* C13 amended: at the end of process_input every successful file has its
\* timeline table, event table and both plots; a file recorded as failed has
\* no output at all if process_csv rejected it, and otherwise has the outputs
\* written before the step that failed, in the order timeline table, event
\* table, timeline plot, and never the box plot.
C13_OutputsUpToFailure ==
  pc = "batch_done" =>
    \A i \in Handled :
      /\ Successful(i) => AllOutputs(i)
      /\ Failed(i) =>
           /\ ~outputs[i].boxplot_png
           /\ outputs[i].timeline_png => outputs[i].events_csv # None
           /\ outputs[i].events_csv # None => outputs[i].timeline_csv # None
           /\ ~Accepted(files[i]) => outputs[i] = NothingWritten

\* a file whose timeline plot could not be saved, after a file that succeeded
C13_Witness ==
  /\ pc = "batch_done" /\ Len(files) = 2
  /\ Successful(1) /\ AllOutputs(1)
  /\ Failed(2) /\ EnvironmentFailed(2)
  /\ outputs[2].events_csv # None /\ ~outputs[2].timeline_png

\* the events whose clamped range contains frame f, and the largest of a set
Covering(f) == {k \in 1..Len(InputPairs) : f \in ClampedRange(k)}
Largest(S) == CHOOSE k \in S : \A j \in S : j <= k
RangesIntersect ==
  \E j \in 1..Len(InputPairs) : \E k \in 1..Len(InputPairs) :
    /\ j < k
    /\ Max(InputPairs[j][1], InputPairs[k][1]) <= Min(InputPairs[j][2], InputPairs[k][2])

\* C14: given ordered pairs whose ranges intersect, generate_timeline does
\* not fail, and in the returned timeline every frame carries the largest
\* EventID among the events whose clamped range contains it, or 0 if no
\* event covers it.
C14_LastEventWins ==
  /\ (pc = "gt_done" /\ EvenInput /\ AllPairsOrdered /\ RangesIntersect) =>
       ~gt_out.raised /\ gt_out.ret # None
  /\ Returned =>
       \A r \in DOMAIN gt_out.ret[1] :
         gt_out.ret[1][r].EventID =
           IF Covering(gt_out.ret[1][r].Frame) = {} THEN 0
           ELSE Largest(Covering(gt_out.ret[1][r].Frame))

\* the second event lies inside the first: ids 1, 2, 1
C14_Witness ==
  /\ Returned /\ RangesIntersect /\ Len(InputPairs) = 2 /\ total_frames = 3
  /\ gt_out.ret[1][1].EventID = 1
  /\ gt_out.ret[1][2].EventID = 2
  /\ gt_out.ret[1][3].EventID = 1

\* the validation failures that apply to the table of the direct call
ValidationFailures ==
  IF ~file.readable THEN {}
  ELSE IF ~file.hasFrame THEN {"Missing Column"}
  ELSE (IF ~Numeric(file) THEN {"Non-numeric Values"} ELSE {})
       \cup (IF Len(file.Frame) % 2 # 0 THEN {"Odd Entry Count"} ELSE {})
       \cup (IF Numeric(file) /\ NonIncreasingAt # {}
             THEN {"Non-increasing Frames"} ELSE {})

\* C15: on a table with a validation failure (missing Frame column,
\* non-numeric value, odd entry count, non-increasing order), process_csv
\* called with an error_log returns None without raising and fills error_log
\* with the filename, the error_type of a failure that applies, details, and
\* a frame exactly when the failure is the ordering one; called without an
\* error_log it raises DataValidationError, returns nothing and fills nothing.
C15_DualMode ==
  /\ (pc = "csv_done" /\ ValidationFailures # {}) =>
       /\ csv_out.ret = None /\ ~csv_out.raised
       /\ csv_out.error_log.filename = Some(DirectName)
       /\ csv_out.error_log.error_type \in ValidationFailures
       /\ csv_out.error_log.details # ""
       /\ (csv_out.error_log.frame # None) <=>
            (csv_out.error_log.error_type = "Non-increasing Frames")
  /\ (pc = "csv_nolog_done" /\ ValidationFailures # {}) =>
       /\ csv_out.raised /\ csv_out.ret = None
       /\ csv_out.error_log = EmptyLog

\* an odd count raised as DataValidationError
C15_Witness ==
  /\ pc = "csv_nolog_done" /\ csv_out.raised
  /\ ValidationFailures = {"Odd Entry Count"}
  /\ Len(file.Frame) = 3

OddInput == IsIntSeries(file) /\ Len(file.Frame) % 2 = 1
OddReported(out) == out.raised /\ out.ret = None /\ out.error = OddEntriesError

\* C16: called directly with a sequence of odd length, generate_event_list
\* and generate_timeline raise the 'even number of entries' error and return
\* no events and no timeline; no pair is taken before: the loop of
\* generate_timeline is never entered and a start > stop among the first
\* elements is not what is reported.
C16_OddLengthFails ==
  /\ (pc = "evl_done" /\ OddInput) => OddReported(evl_out)
  /\ (pc = "gt_done" /\ OddInput) => OddReported(gt_out)
  /\ pc = "gt_loop" => ~OddInput

\* three entries, the first two in the wrong order
C16_Witness ==
  /\ pc = "evl_done" /\ OddInput /\ Len(file.Frame) = 3
  /\ file.Frame[1].v > file.Frame[2].v
  /\ OddReported(evl_out)

\* the tables handed to calculate_file_summary and what it returned
SummaryDone == pc = "fs_done" /\ fs_out # None
FlaggedRows == {r \in DOMAIN gt_out.ret[1] : gt_out.ret[1][r].GroomingFlag = 1}

\* C17: calculate_file_summary returns num_events = the number of event
\* rows, total_grooming_frames = the number of timeline rows with
\* GroomingFlag 1, and a duration list holding StopFrame - StartFrame + 1 for
\* each event in event order; with an empty event list it returns (raises
\* nothing) and average, median and standard deviation are 0; the tables of
\* test_calculate_file_summary give 50 frames, 50 percent and [30, 20].
C17_FileSummary ==
  /\ pc = "fs_done" => fs_out # None
  /\ SummaryDone =>
       /\ fs_out[1].summary.num_events = Len(evl_out.ret[1])
       /\ fs_out[1].summary.total_grooming_frames = Cardinality(FlaggedRows)
       /\ Len(fs_out[1].event_durations) = Len(evl_out.ret[1])
       /\ \A k \in 1..Len(evl_out.ret[1]) :
            /\ fs_out[1].event_durations[k] =
                 evl_out.ret[1][k].StopFrame - evl_out.ret[1][k].StartFrame + 1
            /\ fs_out[1].event_durations[k] = InputFrames[2 * k] - InputFrames[2 * k - 1] + 1
       /\ evl_out.ret[1] = << >> =>
            /\ fs_out[1].summary.avg_event_duration = Zero
            /\ fs_out[1].summary.median_event_duration = Zero
            /\ fs_out[1].summary.std_event_duration = Zero
       /\ (file = Table(IntSeries(<<1, 30, 71, 90>>)) /\ total_frames = 100) =>
            /\ fs_out[1].summary.total_grooming_frames = 50
            /\ fs_out[1].summary.grooming_percentage = [num |-> 50, den |-> 1]
            /\ fs_out[1].event_durations = <<30, 20>>

\* two events of different durations, one of them partly outside the window
C17_Witness ==
  /\ SummaryDone /\ fs_out[1].summary.num_events = 2
  /\ fs_out[1].event_durations[1] > fs_out[1].event_durations[2]
  /\ fs_out[1].summary.total_grooming_frames
       < fs_out[1].event_durations[1] + fs_out[1].event_durations[2]
  /\ fs_out[1].summary.total_grooming_frames > 0

\* the sums of num_events and of total_grooming_frames over summaries
RECURSIVE TotalEvents(_)
TotalEvents(summaries) ==
  IF summaries = << >> THEN 0
  ELSE summaries[1].num_events + TotalEvents(Tail(summaries))

RECURSIVE TotalGroomingFrames(_)
TotalGroomingFrames(summaries) ==
  IF summaries = << >> THEN 0
  ELSE summaries[1].total_grooming_frames + TotalGroomingFrames(Tail(summaries))

\* C18: when process_input has ended, the summary report written has one row
\* per successfully processed file followed by exactly one OVERALL row whose
\* num_events and total_grooming_frames are the sums of the per-file values
\* and whose duration statistics are those of the concatenation of every
\* file's durations; when every file failed nothing is raised and the report
\* is absent or empty.
C18_SummaryReport ==
  pc = "batch_done" =>
    IF file_summaries = << >>
    THEN summary_report_csv \in {None, Some(<< >>)}
    ELSE /\ summary_report_csv # None
         /\ Len(summary_report_csv[1]) = Len(file_summaries) + 1
         /\ \A j \in 1..Len(file_summaries) :
              summary_report_csv[1][j] = file_summaries[j]
         /\ LET overall == summary_report_csv[1][Len(file_summaries) + 1]
                empty == all_event_durations = << >>
            IN /\ overall.filename = "OVERALL"
               /\ overall.num_events = TotalEvents(file_summaries)
               /\ overall.total_grooming_frames = TotalGroomingFrames(file_summaries)
               /\ overall.avg_event_duration =
                    IF empty THEN Zero ELSE Mean(all_event_durations)
               /\ overall.median_event_duration =
                    IF empty THEN Zero ELSE Median(all_event_durations)
               /\ overall.std_event_duration =
                    IF empty THEN Zero ELSE StdSquared(all_event_durations)

ValidInput == EvenInput /\ AllPairsOrdered

\* C19: for every valid input and every total_frames >= 1, generate_timeline
\* returns exactly total_frames rows whose Frame values are 1, 2, ...,
\* total_frames in order, and every frame not covered by any clamped event
\* has GroomingFlag 0 and EventID 0.
C19_TimelineShape ==
  /\ (pc = "gt_done" /\ ValidInput) => gt_out.ret # None
  /\ Returned =>
       /\ Len(gt_out.ret[1]) = total_frames
       /\ \A r \in 1..total_frames :
            /\ gt_out.ret[1][r].Frame = r
            /\ Covering(r) = {} =>
                 gt_out.ret[1][r].GroomingFlag = 0 /\ gt_out.ret[1][r].EventID = 0

\* three rows, the middle one between two events
C19_Witness ==
  /\ Returned /\ total_frames = 3 /\ Len(InputPairs) = 2
  /\ Covering(1) # {} /\ Covering(2) = {} /\ Covering(3) # {}
  /\ gt_out.ret[1][2] = Row(2, 0, 0)
  /\ gt_out.ret[1][3].GroomingFlag = 1

\* C20: on every sequence process_csv accepts (integers, even count,
\* strictly increasing) and for every total_frames >= 1, generate_event_list
\* and generate_timeline return a result: neither the odd-count error nor
\* the start > stop error is raised.
C20_GeneratorsAcceptValidated ==
  /\ (pc = "evl_done" /\ IsIntSeries(file) /\ Accepted(file)) =>
       ~evl_out.raised /\ evl_out.ret # None
  /\ (pc = "gt_done" /\ IsIntSeries(file) /\ Accepted(file)) =>
       ~gt_out.raised /\ gt_out.ret # None

\* a validated sequence that starts below frame 1 and ends past the window
C20_Witness ==
  /\ Returned /\ IsIntSeries(file) /\ Accepted(file) /\ Len(file.Frame) = 4
  /\ InputFrames[1] < 1 /\ InputFrames[4] > total_frames

\* in process_input no file fails in generate_timeline or generate_event_list
BatchGeneratorsNeverFail ==
  \A j \in 1..Len(error_logs) :
    error_logs[j].details \notin {"invalid_pair", "even_number_expected"}

\* the direct call is on a sequence process_csv accepts
ValidatedInput == IsIntSeries(file) /\ Accepted(file)

\* the events whose clamped bounds enclose frame f
EventsAt(f) ==
  {k \in 1..Len(InputPairs) : ClampedLow(k) <= f /\ f <= ClampedHigh(k)}

\* the clamped ranges are pairwise disjoint, in increasing frame order (the
\* earlier one ends before the later one starts), and no frame is covered
\* twice
ClampedRangesOrdered ==
  /\ \A j \in 1..Len(InputPairs) : \A k \in 1..Len(InputPairs) :
       j < k =>
         /\ ClampedRange(j) \cap ClampedRange(k) = {}
         /\ ClampedHigh(j) < ClampedLow(k)
  /\ \A f \in FrameWindow : Cardinality(EventsAt(f)) <= 1

\* an iteration of the loop leaves every row alone whose EventID is set, and
\* starts past the stop of the iteration before
IterationKeepsSetRows ==
  (pc = "gt_loop" /\ pc' = "gt_loop") =>
    /\ \A r \in DOMAIN timeline :
         timeline[r].EventID # 0 => timeline'[r] = timeline[r]
    /\ event_id > 1 => stop < start'

\* C21: for every sequence process_csv accepts and every total_frames >= 1,
\* the clamped ranges of distinct events are pairwise disjoint and in
\* increasing frame order, at most one event covers each frame, and no
\* iteration of generate_timeline changes an EventID that was already set.
C21_DisjointClampedRanges ==
  /\ [](ValidatedInput => ClampedRangesOrdered)
  /\ [][ValidatedInput => IterationKeepsSetRows]_vars

\* two events that both mark frames, the second one cut at total_frames
C21_Witness ==
  /\ ValidatedInput /\ IterationDone(2) /\ total_frames = 3
  /\ MarkedWith(1) # {} /\ MarkedWith(2) # {}
  /\ InputPairs[2][2] > total_frames
  /\ InputPairs[1][2] + 1 = InputPairs[2][1]

\* both generators were called on the sequence of the direct call
BothDone == pc = "both_done"
TimelineEventIds ==
  {gt_out.ret[1][r].EventID : r \in DOMAIN gt_out.ret[1]} \ {0}
EventListIds == {evl_out.ret[1][k].EventID : k \in DOMAIN evl_out.ret[1]}

\* C22: on every integer sequence and every total_frames >= 1,
\* generate_timeline and generate_event_list both succeed or both fail; when
\* they fail they raise the same error, for a start > stop pair with the
\* same 0-based pair index, start and stop; when they succeed every EventID
\* that marks a row of the timeline (0 stands for no event) is an EventID of
\* the event list.
C22_GeneratorsAgree ==
  BothDone =>
    /\ gt_out.raised <=> evl_out.raised
    /\ (gt_out.ret = None) <=> (evl_out.ret = None)
    /\ gt_out.raised <=> (gt_out.ret = None)
    /\ gt_out.raised =>
         /\ gt_out.error.kind = evl_out.error.kind
         /\ gt_out.error.kind = "invalid_pair" =>
              /\ gt_out.error.index = evl_out.error.index
              /\ gt_out.error.start = evl_out.error.start
              /\ gt_out.error.stop = evl_out.error.stop
    /\ ~gt_out.raised => TimelineEventIds \subseteq EventListIds

\* both fail at the second pair
C22_Witness ==
  /\ BothDone /\ gt_out.raised /\ evl_out.raised
  /\ gt_out.error.kind = "invalid_pair" /\ gt_out.error.index = 1
  /\ evl_out.error.index = 1

\* the rows of the event list that carry EventID k
EventsWithId(k) == {e \in DOMAIN evl_out.ret[1] : evl_out.ret[1][e].EventID = k}

\* C23: in every timeline generate_timeline returns, a row has
\* GroomingFlag = 1 exactly when its EventID is greater than 0, and a row
\* with EventID = k > 0 has its Frame inside [StartFrame, StopFrame] of the
\* event with EventID k of the event list generate_event_list builds from
\* the same sequence.
C23_FlagAndEventIdAgree ==
  /\ Returned =>
       \A r \in DOMAIN gt_out.ret[1] :
         /\ gt_out.ret[1][r].GroomingFlag \in {0, 1}
         /\ gt_out.ret[1][r].EventID >= 0
         /\ (gt_out.ret[1][r].GroomingFlag = 1) <=> (gt_out.ret[1][r].EventID > 0)
  /\ (BothDone /\ gt_out.ret # None) =>
       /\ evl_out.ret # None
       /\ \A r \in DOMAIN gt_out.ret[1] :
            gt_out.ret[1][r].EventID > 0 =>
              /\ Cardinality(EventsWithId(gt_out.ret[1][r].EventID)) = 1
              /\ \A e \in EventsWithId(gt_out.ret[1][r].EventID) :
                   /\ evl_out.ret[1][e].StartFrame <= gt_out.ret[1][r].Frame
                   /\ gt_out.ret[1][r].Frame <= evl_out.ret[1][e].StopFrame

\* rows of event 2, whose range in the event list reaches past the window,
\* next to a row without event
C23_Witness ==
  /\ BothDone /\ gt_out.ret # None /\ total_frames = 3
  /\ Len(evl_out.ret[1]) = 2
  /\ evl_out.ret[1][2].StopFrame > total_frames
  /\ gt_out.ret[1][3].EventID = 2 /\ gt_out.ret[1][3].GroomingFlag = 1
  /\ gt_out.ret[1][1].EventID = 0 /\ gt_out.ret[1][1].GroomingFlag = 0

\* the accumulators of the loop agree with each other
AccumulatorsAgree ==
  /\ successful_files = Len(file_summaries)
  /\ Len(file_summaries) + Len(error_logs) = total_files
  /\ total_files = idx
  /\ Len(all_event_durations) = TotalEvents(file_summaries)

\* an iteration that appends to error_logs is the iteration of a failing file
FailingIterationKeepsSuccesses ==
  Len(error_logs') > Len(error_logs) =>
    /\ file_summaries' = file_summaries
    /\ all_event_durations' = all_event_durations
    /\ successful_files' = successful_files

\* C24: after each iteration of the loop of process_input, whatever files
\* succeeded and failed, successful_files = len(file_summaries),
\* len(file_summaries) + len(error_logs) = total_files = the number of files
\* handled so far, and len(all_event_durations) is the sum of num_events over
\* file_summaries; the iteration of a failing file leaves file_summaries,
\* all_event_durations and successful_files unchanged.
C24_LoopAccumulators ==
  /\ []AccumulatorsAgree
  /\ [][FailingIterationKeepsSuccesses]_vars

\* a file that fails after its tables were written, after a file that
\* succeeded with one event
C24_Witness ==
  /\ idx = 2 /\ successful_files = 1 /\ Len(error_logs) = 1
  /\ file_summaries[1].filename = Stem(1)
  /\ error_logs[1].filename = Some(Name(2))
  /\ outputs[2].events_csv # None
  /\ Len(all_event_durations) = 1

====
